---- MODULE Spec2Model ----
(***************************************************************************)
(* Scene graph of the ECS engine: Entity (entity.ts), the two revisions of *)
(* Scene (scene.ts, one level of children; unnamed/part_000, recursive),   *)
(* and the test component of tests/mockComponent.js.                       *)
(*                                                                         *)
(* A JavaScript object used as a map is a sequence of <<key, value>> pairs *)
(* in the order in which for-in and Object.keys enumerate its own keys.    *)
(* Entities, components, scenes and promises are references: an identity   *)
(* is the index of the object in the store that holds it; 0 is undefined.  *)
(***************************************************************************)
EXTENDS Integers, Sequences, FiniteSets, TLC

\* ---------------------------------------------------------------- bounds
MaxObjects == 4     \* scenes created and entities described, in all
MaxSetups == 2      \* component entries described, in all
MaxWalks == 1       \* calls of Scene.walk
MaxEntities == 2    \* entities made by `new Entity()` outside a scene
MaxCalls == 3       \* calls of addComponent on those entities
MaxNodes == 4       \* entities of the one description given to CreateDeep
MaxPlayers == 2     \* players that the referee is given
MaxBelow == 3       \* entities below the owner of the layer
MaxSprites == 1     \* components attached besides the layer itself

\* ------------------------------------------------------------ vocabulary
NameSeq == <<"A", "B", "C", "D", "E">>
Names == {"A", "B", "C"}
\* The component types the test creator is asked for, and what the test's
\* onSetup hook does for a component of each: return nothing, return a
\* promise that is settled later, or throw.
Types == {"Sync", "Async", "Throw"}
\* The payload of a component entry is opaque to the scene: each entry of a
\* description holds its own, <<name of the entity, type>>.
Payload(name, type) == <<name, type>>
Revisions == {"part_000", "scene.ts"}
\* The functions Entity.componentCreator refers to: the default, or the one
\* of the tests once registerMock has been called.
Creators == {"ComponentFactory.create", "mock"}
\* The type names addComponent is called with on an entity outside a scene:
\* two that ComponentFactory.componentCreators holds, and one it lacks.
TypeNames == {"Position", "Texture", "Sync"}
\* The names addChild is called with: an ordinary one, and one that is an
\* array index.
ChildNames == {"A", "0"}
Undefined == 0

\* ------------------------------------------------------ JavaScript objects
\* Own keys that are array indices are enumerated first, in ascending
\* numeric order, before the other keys, which keep their insertion order.
IndexKeys == <<"0", "1", "2", "3">>
IsIndex(k) == \E i \in 1..Len(IndexKeys) : IndexKeys[i] = k
IndexOf(k) == CHOOSE i \in 1..Len(IndexKeys) : IndexKeys[i] = k

Keys(o) == [i \in 1..Len(o) |-> o[i][1]]
Has(o, k) == \E i \in 1..Len(o) : o[i][1] = k
\* o[k]
Get(o, k) == IF Has(o, k) THEN o[CHOOSE i \in 1..Len(o) : o[i][1] = k][2]
             ELSE Undefined
\* the position at which a new own key k is enumerated
InsertAt(o, k) ==
  IF IsIndex(k)
  THEN 1 + Cardinality({i \in 1..Len(o) :
                          IsIndex(o[i][1]) /\ IndexOf(o[i][1]) < IndexOf(k)})
  ELSE Len(o) + 1
\* o[k] = v
Put(o, k, v) ==
  IF Has(o, k)
  THEN [i \in 1..Len(o) |-> IF o[i][1] = k THEN <<k, v>> ELSE o[i]]
  ELSE LET p == InsertAt(o, k)
       IN SubSeq(o, 1, p - 1) \o <<(<<k, v>>)>> \o SubSeq(o, p, Len(o))

\* ------------------------------------------------------------ descriptions
\* IEntityDesc is [components |-> object, children |-> ISceneDesc]; an
\* ISceneDesc is an object from names to IEntityDesc.
RECURSIVE NodeCount(_)
NodeCount(desc) ==
  IF desc = <<>> THEN 0
  ELSE 1 + NodeCount(Head(desc)[2].children) + NodeCount(Tail(desc))

RECURSIVE SetupCount(_)
SetupCount(desc) ==
  IF desc = <<>> THEN 0
  ELSE Len(Head(desc)[2].components) + SetupCount(Head(desc)[2].children)
       + SetupCount(Tail(desc))

RECURSIVE DescDepth(_)
DescDepth(desc) ==
  IF desc = <<>> THEN 0
  ELSE LET a == 1 + DescDepth(Head(desc)[2].children)
           b == DescDepth(Tail(desc))
       IN IF a > b THEN a ELSE b

\* the component maps with exactly k entries, for the entity called name
ComponentMaps(k, name) ==
  {[i \in 1..k |-> <<t[i], Payload(name, t[i])>>] :
     t \in {u \in [1..k -> Types] : \A i, j \in 1..k : i # j => u[i] # u[j]}}

\* Descriptions with free names and no component: the forests of exactly n
\* entities whose sibling names are pairwise distinct.
RECURSIVE TreeForests(_, _)
TreeForests(n, used) ==
  IF n = 0 THEN {<<>>}
  ELSE UNION {
         UNION {
           { <<(<<k, [components |-> <<>>, children |-> sub]>>)>> \o rest :
               sub \in TreeForests(i - 1, {}),
               rest \in TreeForests(n - i, used \cup {k}) }
           : i \in 1..n }
         : k \in Names \ used }

TreeDescriptions == [n \in 0..(MaxObjects - 1) |-> TreeForests(n, {})]

\* Descriptions with components, every entity named after its rank in the
\* pre-order of the forest (NameSeq[k] is the k-th entity): the forests of
\* exactly n entities and exactly c component entries.
RECURSIVE BuildForests(_, _, _)
BuildForests(n, c, k) ==
  IF n = 0 THEN (IF c = 0 THEN {<<>>} ELSE {})
  ELSE IF k > Len(NameSeq) THEN {}
  ELSE UNION {
         UNION {
           UNION {
             { <<(<<NameSeq[k], [components |-> m, children |-> sub]>>)>>
                 \o rest :
                 m \in ComponentMaps(cm, NameSeq[k]),
                 sub \in BuildForests(i - 1, ct - cm, k + 1),
                 rest \in BuildForests(n - i, c - ct, k + i) }
             : cm \in 0..ct }
           : ct \in 0..c }
         : i \in 1..n }

BuildDescriptions ==
  [n \in 0..(MaxObjects - 1) |-> [c \in 0..MaxSetups |-> BuildForests(n, c, 1)]]

\* ------------------------------------------------------------------ state
VARIABLES
  revision,   \* which Scene class is loaded: part_000 or scene.ts
  ents,       \* the Entity objects: [components, children]
  comps,      \* the component objects: [type, owner]
  scenes,     \* the Scene objects: the member `scenes` of each
  current,    \* Scene.current
  promises,   \* the promises: [state, value]
  builds,     \* the calls of Scene.create
  setups,     \* the calls of setup, in the order in which they were made
  walks,      \* the calls of Scene.walk
  found,      \* what the last call gave, when a lookup or a traversal
  creator,    \* Entity.componentCreator
  calls,      \* the calls of addComponent on entities outside a scene
  added       \* for each entity, the names given to addChild in the order
              \* of their first call, each with the child of its last call

\* what the calls on entities outside a scene are recorded in
api == <<creator, calls, added>>

vars == <<revision, ents, comps, scenes, current, promises, builds, setups,
          walks, found, api>>

\* The objects a synchronous run of code allocates and the calls it logs are
\* threaded through it as a record m = [ents, comps, promises, setups].
Machine == [ents |-> ents, comps |-> comps, promises |-> promises,
            setups |-> setups]

\* ----------------------------------------------------------------- Entity
\* new Entity()
NewEntity(m) ==
  [m EXCEPT !.ents = Append(@, [components |-> <<>>, children |-> <<>>])]

\* the component made is not tagged with the type asked for
componentCreator_untagged(m, type, owner) ==
  [m EXCEPT !.comps = Append(@, [type |-> "", owner |-> owner])]

\* Entity.componentCreator, as the tests register it: new TestComponent
componentCreator(m, type, owner) ==
  [m EXCEPT !.comps = Append(@, [type |-> type, owner |-> owner])]

\* this.components.push(newComponent), m1 being the heap with newComponent
pushComponent(m1, e) ==
  [m1 EXCEPT !.ents[e].components = Append(@, Len(m1.comps))]

addComponent(m, e, type) == pushComponent(componentCreator(m, type, e), e)

\* the forEach of getComponent: every component of the type overwrites
\* foundComp
RECURSIVE getComponentEach(_, _, _, _)
\* the components are not gone through: components[0] is returned
getComponentEach_first(m, components, type, foundComp) == foundComp

getComponentEach(m, components, type, foundComp) ==
  IF components = <<>> THEN foundComp
  ELSE getComponentEach(m, Tail(components), type,
         IF m.comps[Head(components)].type = type
         THEN Head(components) ELSE foundComp)

\* this.components[0]
firstComponent(components) ==
  IF components = <<>> THEN Undefined ELSE components[1]

getComponent(m, e, type) ==
  getComponentEach(m, m.ents[e].components, type,
                   firstComponent(m.ents[e].components))

\* a name the entity holds keeps its child
addChild_keepFirst(m, e, objectName, child) ==
  IF Has(m.ents[e].children, objectName) THEN m
  ELSE [m EXCEPT !.ents[e].children = Put(@, objectName, child)]

addChild(m, e, objectName, child) ==
  [m EXCEPT !.ents[e].children = Put(@, objectName, child)]

getChild(m, e, objectName) == Get(m.ents[e].children, objectName)

\* the loop `for comp in components: entity.addComponent(comp)`
RECURSIVE AddComponents(_, _, _)
AddComponents(m, e, components) ==
  IF components = <<>> THEN m
  ELSE AddComponents(addComponent(m, e, Head(components)[1]), e,
                     Tail(components))

\* ComponentFactory.componentCreators, as far as TypeNames goes
Registered == {"Position", "Texture"}

\* a component is made for every type name, registered or not
ComponentFactory_create_any(m, type, owner) ==
  [m |-> [m EXCEPT !.comps = Append(@, [type |-> type, owner |-> owner])],
   throws |-> FALSE]

\* ComponentFactory.create(type, owner): `new` on the undefined entry of an
\* unregistered type throws; otherwise the component is made for the owner
\* and tagged with the type
ComponentFactory_create(m, type, owner) ==
  IF type \in Registered
  THEN [m |-> [m EXCEPT !.comps = Append(@, [type |-> type,
                                             owner |-> owner])],
        throws |-> FALSE]
  ELSE [m |-> m, throws |-> TRUE]

\* Entity.componentCreator(type, this), cr being the function it refers to
creatorCall(cr, m, type, owner) ==
  IF cr = "mock"
  THEN [m |-> componentCreator(m, type, owner), throws |-> FALSE]
  ELSE ComponentFactory_create(m, type, owner)

\* addComponent, r being what the creator gave: a throw leaves before the
\* push; otherwise the new component is pushed and returned
addComponentWith(r, e) ==
  IF r.throws THEN [m |-> r.m, throws |-> TRUE, value |-> Undefined]
  ELSE [m |-> pushComponent(r.m, e), throws |-> FALSE,
        value |-> Len(r.m.comps)]

\* the component walker is never called
walkComponent_none(m, e) == <<>>

\* walkComponent(fn): the calls fn(comp, comp.__type) in the order made
walkComponent(m, e) ==
  [k \in 1..Len(m.ents[e].components) |->
     <<m.ents[e].components[k], m.comps[m.ents[e].components[k]].type>>]

\* ---------------------------------------------- Scene, part_000: structure
RECURSIVE construChildrenRecurse(_, _)
RECURSIVE construChildren(_, _, _)

\* the entity of construChildrenRecurse, its components added: its children
\* are built, and the heap and the entity returned
construEntity(m1, entity, ent) ==
  [m |-> construChildren(m1, entity, ent.children), entity |-> entity]

\* the children of the descriptor are not built
construChildrenRecurse_leaf(m, ent) ==
  [m |-> AddComponents(NewEntity(m), Len(m.ents) + 1, ent.components),
   entity |-> Len(m.ents) + 1]

construChildrenRecurse(m, ent) ==
  construEntity(AddComponents(NewEntity(m), Len(m.ents) + 1, ent.components),
                Len(m.ents) + 1, ent)

\* the child is stored a second time, under another name
construAddChild_twice(r, entity, children) ==
  construChildren(addChild(addChild(r.m, entity, Head(children)[1], r.entity),
                           entity, "twin", r.entity),
                  entity, Tail(children))

\* entity.addChild(child, r) with r what construChildrenRecurse returned,
\* and on to the next child
construAddChild(r, entity, children) ==
  construChildren(addChild(r.m, entity, Head(children)[1], r.entity),
                  entity, Tail(children))

\* the loop `for child in children: entity.addChild(child, constru...(..))`
construChildren(m, entity, children) ==
  IF children = <<>> THEN m
  ELSE construAddChild(construChildrenRecurse(m, Head(children)[2]),
                       entity, children)

\* new Scene(description): gives the heap and the member `scenes`
RECURSIVE constructor(_, _, _)
constructor(m, roots, description) ==
  IF description = <<>> THEN [m |-> m, scenes |-> roots]
  ELSE constructor(
         construChildren(
           AddComponents(NewEntity(m), Len(m.ents) + 1,
                         Head(description)[2].components),
           Len(m.ents) + 1, Head(description)[2].children),
         Put(roots, Head(description)[1], Len(m.ents) + 1),
         Tail(description))

\* ---------------------------------------------- Scene, scene.ts: structure
\* the children of a root: one level, their own children are not built
RECURSIVE ts_constructChildren(_, _, _)
ts_constructChildren(m, entity, children) ==
  IF children = <<>> THEN m
  ELSE ts_constructChildren(
         addChild(AddComponents(NewEntity(m), Len(m.ents) + 1,
                                Head(children)[2].components),
                  entity, Head(children)[1], Len(m.ents) + 1),
         entity, Tail(children))

RECURSIVE ts_constructor(_, _, _)
ts_constructor(m, roots, description) ==
  IF description = <<>> THEN [m |-> m, scenes |-> roots]
  ELSE ts_constructor(
         ts_constructChildren(
           AddComponents(NewEntity(m), Len(m.ents) + 1,
                         Head(description)[2].components),
           Len(m.ents) + 1, Head(description)[2].children),
         Put(roots, Head(description)[1], Len(m.ents) + 1),
         Tail(description))

\* ------------------------------------------------------------- findObject
\* The outcome of a call: [throws |-> BOOLEAN, value |-> entity or Undefined]
Returns(v) == [throws |-> FALSE, value |-> v]
Throws == [throws |-> TRUE, value |-> Undefined]

RECURSIVE findRecurse(_, _, _)
RECURSIVE findRecurseChildren(_, _, _)

\* `if (foundObject != undefined) return foundObject` in the loop of
\* findRecurse
findRecurseFound(m, objectName, children, foundObject) ==
  IF foundObject # Undefined THEN foundObject
  ELSE findRecurseChildren(m, objectName, Tail(children))

\* the loop over ent.children; falling off its end returns undefined
findRecurseChildren(m, objectName, children) ==
  IF children = <<>> THEN Undefined
  ELSE findRecurseFound(m, objectName, children,
                        findRecurse(m, objectName, Head(children)[2]))

\* the children of ent are not searched
findRecurse_direct(m, objectName, ent) == getChild(m, ent, objectName)

findRecurse(m, objectName, ent) ==
  IF getChild(m, ent, objectName) # Undefined
  THEN getChild(m, ent, objectName)
  ELSE findRecurseChildren(m, objectName, m.ents[ent].children)

RECURSIVE findObjectRoots(_, _, _)
\* `if (foundObject != undefined) return foundObject` in the loop of
\* findObject
findObjectFound(m, objectName, roots, foundObject) ==
  IF foundObject # Undefined THEN Returns(foundObject)
  ELSE findObjectRoots(m, objectName, Tail(roots))

\* falling off the end of the loop returns undefined
findObjectRoots_undefined(m, objectName, roots) ==
  IF roots = <<>> THEN Returns(Undefined)
  ELSE findObjectFound(m, objectName, roots,
                       findRecurse(m, objectName, Head(roots)[2]))

\* the loop over this.scenes; falling off its end throws
findObjectRoots(m, objectName, roots) ==
  IF roots = <<>> THEN Throws
  ELSE findObjectFound(m, objectName, roots,
                       findRecurse(m, objectName, Head(roots)[2]))

findObject(m, roots, objectName) ==
  IF Get(roots, objectName) # Undefined
  THEN Returns(Get(roots, objectName))
  ELSE findObjectRoots(m, objectName, roots)

\* scene.ts: the loop over this.scenes does not stop at the first match
RECURSIVE ts_findObjectRoots(_, _, _, _)
ts_findObjectRoots(m, objectName, roots, foundObject) ==
  IF roots = <<>> THEN foundObject
  ELSE ts_findObjectRoots(m, objectName, Tail(roots),
         IF getChild(m, Head(roots)[2], objectName) # Undefined
         THEN getChild(m, Head(roots)[2], objectName) ELSE foundObject)

ts_findObject(m, roots, objectName) ==
  IF Get(roots, objectName) # Undefined
  THEN Returns(Get(roots, objectName))
  ELSE Returns(ts_findObjectRoots(m, objectName, roots, Undefined))

\* --------------------------------------------------------------- promises
Pending == [state |-> "pending", value |-> Undefined]
NewPromise(m) == [m EXCEPT !.promises = Append(@, Pending)]
\* resolve(v) or reject(): a promise that is already settled stays as it is
Settle(ps, p, state, v) ==
  IF ps[p].state = "pending"
  THEN [ps EXCEPT ![p] = [state |-> state, value |-> v]]
  ELSE ps
SettleIn(m, p, state) ==
  [m EXCEPT !.promises = Settle(@, p, state, Undefined)]
\* An element of the array given to Promise.all counts as fulfilled when it
\* is no promise (setup returned nothing) or a fulfilled promise.
Fulfilled(ps, x) ==
  IF x = Undefined THEN TRUE ELSE ps[x].state = "fulfilled"

\* What a loop of calls gives: the heap, the values collected, and whether
\* a call threw (which ends the loop).
Done(m, acc) == [m |-> m, acc |-> acc, throws |-> FALSE]
Thrown(m, acc) == [m |-> m, acc |-> acc, throws |-> TRUE]

\* ------------------------------------------------------------------- walk
\* What a call of walk builds up, threaded through it as a record
\* w = [promises, visits, roots]: the promises, the calls of fn in the order
\* in which they were made, and for every promise pushed to the array
\* `promises` of walk the promises of fn whose fulfilment resolves it.

\* fn(entity, name): the visitor is called and returns a promise
fn(w, entity, name) ==
  [w EXCEPT !.promises = Append(@, Pending),
            !.visits = Append(@, [entity |-> entity, name |-> name,
                                  promise |-> Len(w.promises) + 1])]

\* the promise that the last call of fn returned
lastVisit(w) == w.visits[Len(w.visits)].promise

RECURSIVE walkChildrenRecurse(_, _, _, _)
RECURSIVE walkGrandChildren(_, _, _)

\* the loop of walkChildrenRecurse over the children is left out
walkGrandChildren_none(es, w, children) == w

\* The loop of walkChildrenRecurse over (children as Entity).children: the
\* promises that the recursive calls return are dropped.
walkGrandChildren(es, w, children) ==
  IF children = <<>> THEN w
  ELSE walkGrandChildren(
         es,
         walkChildrenRecurse(es, w, Head(children)[2], Head(children)[1]),
         Tail(children))

\* fn is applied to an entity after the loop over its children
walkChildrenRecurse_post(es, w, children, name) ==
  fn(walkGrandChildren(es, w, es[children].children), children, name)

\* walkChildrenRecurse(children, fn, name): the promise it returns is
\* resolved when the promise of fn(children, name) is fulfilled
walkChildrenRecurse(es, w, children, name) ==
  walkGrandChildren(es, fn(w, children, name), es[children].children)

\* fn(...).then(() => resolve()) and walkChildrenRecurse(...).then(() =>
\* resolve()) in the executor of the promise of a root: the promise p
\* resolves the promise pushed last
thenResolve(w, p) == [w EXCEPT !.roots[Len(w.roots)] = @ \cup {p}]

\* promises.push(new Promise(...)) followed by the `then` on fn(root)
pushRoot(w) == [w EXCEPT !.roots = Append(@, {lastVisit(w)})]

\* the promise that walkChildrenRecurse returned, w0 being the record before
\* the call, resolves the promise of the root
thenChild(w, w0) == thenResolve(w, Len(w0.promises) + 1)

RECURSIVE walkRootChildren(_, _, _)

\* the children of a root are left for later
walkRootChildren_none(es, w, children) == w

\* the loop over the children of a root in walk
walkRootChildren(es, w, children) ==
  IF children = <<>> THEN w
  ELSE walkRootChildren(
         es,
         thenChild(walkChildrenRecurse(es, w, Head(children)[2],
                                       Head(children)[1]), w),
         Tail(children))

\* the loop over this.scenes in walk
RECURSIVE walkEach(_, _, _)
walkEach(es, w, roots) ==
  IF roots = <<>> THEN w
  ELSE walkEach(
         es,
         walkRootChildren(es,
                          pushRoot(fn(w, Head(roots)[2], Head(roots)[1])),
                          es[Head(roots)[2]].children),
         Tail(roots))

\* part_000: walk(fn), whose promise is Len(ps) + 1
walk(es, ps, roots) ==
  walkEach(es, [promises |-> Append(ps, Pending), visits |-> <<>>,
                roots |-> <<>>], roots)

\* the entity walker is never called
walkChildren_none(w, children) == w

\* Entity.walkChildren(fn): what fn returns is not kept
RECURSIVE walkChildren(_, _)
walkChildren(w, children) ==
  IF children = <<>> THEN w
  ELSE walkChildren(fn(w, Head(children)[2], Head(children)[1]),
                    Tail(children))

\* scene.ts: the loop over this.scenes in walk
RECURSIVE ts_walkEach(_, _, _)
ts_walkEach(es, w, roots) ==
  IF roots = <<>> THEN w
  ELSE ts_walkEach(
         es,
         pushRoot(fn(walkChildren(w, es[Head(roots)[2]].children),
                     Head(roots)[2], Head(roots)[1])),
         Tail(roots))

\* scene.ts: walk(fn)
ts_walk(es, ps, roots) ==
  ts_walkEach(es, [promises |-> Append(ps, Pending), visits |-> <<>>,
                   roots |-> <<>>], roots)

\* ------------------------------------------------------------------ setup
\* the payload is stamped before the component receives it
SetupCall_stamped(m, comp, descr, cur, b) ==
  [build |-> b, comp |-> comp, payload |-> Append(descr, "seen"),
   current |-> cur, ents |-> m.ents, comps |-> m.comps,
   promise |-> Undefined, threw |-> FALSE]

\* the entry of the log for a call of setup: what the process holds when
\* the call is made
SetupCall(m, comp, descr, cur, b) ==
  [build |-> b, comp |-> comp, payload |-> descr, current |-> cur,
   ents |-> m.ents, comps |-> m.comps, promise |-> Undefined,
   threw |-> FALSE]

\* comp.setup(descr) of the test component: onSetup(this, descr)
setup(m, comp, descr, cur, b) ==
  CASE m.comps[comp].type = "Sync" ->
         [m |-> [m EXCEPT !.setups =
                   Append(@, SetupCall(m, comp, descr, cur, b))],
          value |-> Undefined, throws |-> FALSE]
    [] m.comps[comp].type = "Async" ->
         [m |-> [m EXCEPT
                   !.promises = Append(@, Pending),
                   !.setups = Append(@,
                     [SetupCall(m, comp, descr, cur, b)
                        EXCEPT !.promise = Len(m.promises) + 1])],
          value |-> Len(m.promises) + 1, throws |-> FALSE]
    [] OTHER ->
         [m |-> [m EXCEPT !.setups =
                   Append(@, [SetupCall(m, comp, descr, cur, b)
                                EXCEPT !.threw = TRUE])],
          value |-> Undefined, throws |-> TRUE]

RECURSIVE setupEach(_, _, _, _, _, _)
\* after one setup of the loop: a throw ends the loop, a value is pushed
setupPush(r, e, components, cur, b, acc) ==
  IF r.throws THEN Thrown(r.m, acc)
  ELSE setupEach(r.m, e, Tail(components), cur, b, Append(acc, r.value))

\* getComponent(..).setup(..): calling setup on undefined throws
setupComponent(m, e, comp, components, cur, b, acc) ==
  IF comp = Undefined THEN Thrown(m, acc)
  ELSE setupPush(setup(m, comp, Head(components)[2], cur, b),
                 e, components, cur, b, acc)

\* the loop `for comp in components: e.getComponent(comp).setup(..)`, the
\* values returned pushed on acc
setupEach(m, e, components, cur, b, acc) ==
  IF components = <<>> THEN Done(m, acc)
  ELSE IF e = Undefined THEN Thrown(m, acc)
  ELSE setupComponent(m, e, getComponent(m, e, Head(components)[1]),
                      components, cur, b, acc)

\* ------------------------------------------------- Scene, part_000: create
RECURSIVE setupChildrenRecurse(_, _, _, _, _)
RECURSIVE setupChildrenOfChild(_, _, _, _, _, _)

\* desc.children[k]; for a key the descriptor does not hold, the calls made
\* are those of an empty descriptor: none
ChildDesc(desc, k) ==
  IF Has(desc.children, k)
  THEN desc.children[CHOOSE i \in 1..Len(desc.children) :
                       desc.children[i][1] = k][2]
  ELSE [components |-> <<>>, children |-> <<>>]

\* The end of the executor of setupChildrenRecurse, r being what the loop
\* over the components gave. The array setupPromises of this function stays
\* empty, so its Promise.all is fulfilled at once and the promise p is
\* resolved unless the executor threw; what the setups and the recursive
\* calls return is dropped.
setupChildrenEnd(r, p, child, desc, cur, b) ==
  IF r.throws THEN [m |-> SettleIn(r.m, p, "rejected"), promise |-> p]
  ELSE [m |-> SettleIn(
                setupChildrenOfChild(r.m, child,
                                     Keys(r.m.ents[child].children),
                                     desc, cur, b),
                p, "fulfilled"),
        promise |-> p]

\* gives the heap and the promise returned
setupChildrenRecurse(m, child, desc, cur, b) ==
  IF child = Undefined
  THEN [m |-> SettleIn(NewPromise(m), Len(m.promises) + 1, "rejected"),
        promise |-> Len(m.promises) + 1]
  ELSE setupChildrenEnd(
         setupEach(NewPromise(m), child, desc.components, cur, b, <<>>),
         Len(m.promises) + 1, child, desc, cur, b)

\* the loop over child.children is left out
setupChildrenOfChild_none(m, child, keys, desc, cur, b) == m

\* the loop `for childOfChild in child.children`
setupChildrenOfChild(m, child, keys, desc, cur, b) ==
  IF keys = <<>> THEN m
  ELSE setupChildrenOfChild(
         setupChildrenRecurse(m, getChild(m, child, Head(keys)),
                              ChildDesc(desc, Head(keys)), cur, b).m,
         child, Tail(keys), desc, cur, b)

RECURSIVE createChildren(_, _, _, _, _, _)
\* setupPromises.push(r.promise), and on to the next child
createChildPush(r, e, children, cur, b, acc) ==
  createChildren(r.m, e, Tail(children), cur, b, Append(acc, r.promise))

\* the loop `for child in description[obj].children` of create: the promise
\* of each child is pushed
createChildren(m, e, children, cur, b, acc) ==
  IF children = <<>> THEN Done(m, acc)
  ELSE IF e = Undefined THEN Thrown(m, acc)
  ELSE createChildPush(
         setupChildrenRecurse(m, getChild(m, e, Head(children)[1]),
                              Head(children)[2], cur, b),
         e, children, cur, b, acc)

\* Scene.current.findObject(obj), Scene.current being the scene `cur` of sc
currentFindObject(m, sc, cur, obj) ==
  IF cur = Undefined THEN Throws ELSE findObject(m, sc[cur], obj)

RECURSIVE createEach(_, _, _, _, _, _)
\* after the children of one object
createNext(r, sc, cur, description, b) ==
  IF r.throws THEN r
  ELSE createEach(r.m, sc, cur, Tail(description), b, r.acc)

\* after the components of one object
createObjectChildren(r, f, sc, cur, description, b) ==
  IF r.throws THEN r
  ELSE createNext(
         createChildren(r.m, f.value, Head(description)[2].children, cur, b,
                        r.acc),
         sc, cur, description, b)

\* one object of the description, f being what findObject gave for it
createObject(m, f, sc, cur, description, b, acc) ==
  createObjectChildren(
    setupEach(m, f.value, Head(description)[2].components, cur, b, acc),
    f, sc, cur, description, b)

\* the loop `for obj in description` of create; gives the heap, the array
\* setupPromises and whether the executor threw
createEach(m, sc, cur, description, b, acc) ==
  IF description = <<>> THEN Done(m, acc)
  ELSE createObject(m, currentFindObject(m, sc, cur, Head(description)[1]),
                    sc, cur, description, b, acc)

\* ------------------------------------------------- Scene, scene.ts: create
ts_currentFindObject(m, sc, cur, obj) ==
  IF cur = Undefined THEN Throws ELSE ts_findObject(m, sc[cur], obj)

\* findObject(objName).getChild(childName)
ts_childOf(m, f, childName) ==
  IF f.value = Undefined THEN Undefined ELSE getChild(m, f.value, childName)

RECURSIVE ts_createChildren(_, _, _, _, _, _, _)
ts_createChildNext(r, sc, objName, children, cur, b) ==
  IF r.throws THEN r
  ELSE ts_createChildren(r.m, sc, objName, Tail(children), cur, b, r.acc)

\* the forEach over the children of one object: the setups of each child's
\* components are pushed
ts_createChildren(m, sc, objName, children, cur, b, acc) ==
  IF children = <<>> THEN Done(m, acc)
  ELSE ts_createChildNext(
         setupEach(m,
                   ts_childOf(m, ts_currentFindObject(m, sc, cur, objName),
                              Head(children)[1]),
                   Head(children)[2].components, cur, b, acc),
         sc, objName, children, cur, b)

RECURSIVE ts_createEach(_, _, _, _, _, _)
ts_createNext(r, sc, cur, description, b) ==
  IF r.throws THEN r
  ELSE ts_createEach(r.m, sc, cur, Tail(description), b, r.acc)

ts_createObjectChildren(r, sc, cur, description, b) ==
  IF r.throws THEN r
  ELSE ts_createNext(
         ts_createChildren(r.m, sc, Head(description)[1],
                           Head(description)[2].children, cur, b, r.acc),
         sc, cur, description, b)

ts_createEach(m, sc, cur, description, b, acc) ==
  IF description = <<>> THEN Done(m, acc)
  ELSE ts_createObjectChildren(
         setupEach(m,
                   ts_currentFindObject(m, sc, cur, Head(description)[1]).value,
                   Head(description)[2].components, cur, b, acc),
         sc, cur, description, b)

\* ----------------------------------------------------------- Scene.create
\* Scene.current is assigned only when no scene is active yet
assignCurrent_ifNone(cur, scene) == IF cur = Undefined THEN scene ELSE cur
\* Scene.current is not assigned
assignCurrent_never(cur, scene) == cur

\* Scene.current = scene
assignCurrent(cur, scene) == scene

\* The record of a call of create, once its executor has run to its end:
\* c is what the constructor gave (ents, comps), r what the loop over the
\* description gave, cur what Scene.current was when create was called
\* (before). When a call threw the promise p is rejected; otherwise
\* Promise.all(setupPromises).then(..) is registered (all).
createEnd(r, c, p, sc, cur, description) ==
  [m |-> IF r.throws THEN SettleIn(r.m, p, "rejected") ELSE r.m,
   scenes |-> Append(sc, c.scenes),
   current |-> assignCurrent(cur, Len(sc) + 1),
   build |-> [description |-> description, scene |-> Len(sc) + 1,
              before |-> cur, promise |-> p, setupPromises |-> r.acc,
              all |-> ~r.throws, joined |-> FALSE,
              ents |-> c.m.ents, comps |-> c.m.comps]]

\* after `new Scene(description)`: Scene.current is assigned and the setups
\* are called
createSetups(c, p, sc, cur, description, b) ==
  createEnd(
    createEach(c.m, Append(sc, c.scenes), assignCurrent(cur, Len(sc) + 1),
               description, b, <<>>),
    c, p, sc, cur, description)

\* The executor of the promise that create returns, run to its end. Gives
\* the heap, the scenes, Scene.current and the record of the call.
create(m, sc, cur, description, b) ==
  createSetups(constructor(NewPromise(m), <<>>, description),
               Len(m.promises) + 1, sc, cur, description, b)

ts_createSetups(c, p, sc, cur, description, b) ==
  createEnd(
    ts_createEach(c.m, Append(sc, c.scenes), assignCurrent(cur, Len(sc) + 1),
                  description, b, <<>>),
    c, p, sc, cur, description)

ts_create(m, sc, cur, description, b) ==
  ts_createSetups(ts_constructor(NewPromise(m), <<>>, description),
                  Len(m.promises) + 1, sc, cur, description, b)

\* ---------------------------------------------------------------- actions
\* one per call of create and one per entity of its description
RECURSIVE UsedObjects(_)
UsedObjects(bs) ==
  IF bs = <<>> THEN 0
  ELSE 1 + NodeCount(Head(bs).description) + UsedObjects(Tail(bs))

RECURSIVE UsedSetups(_)
UsedSetups(bs) ==
  IF bs = <<>> THEN 0
  ELSE SetupCount(Head(bs).description) + UsedSetups(Tail(bs))

Init ==
  /\ revision \in Revisions
  /\ ents = <<>>
  /\ comps = <<>>
  /\ scenes = <<>>
  /\ current = Undefined
  /\ promises = <<>>
  /\ builds = <<>>
  /\ setups = <<>>
  /\ walks = <<>>
  /\ found = <<>>
  /\ creator = "mock"
  /\ calls = <<>>
  /\ added = <<>>

\* the state after a call of create that gave r
Created(r) ==
  /\ ents' = r.m.ents
  /\ comps' = r.m.comps
  /\ promises' = r.m.promises
  /\ setups' = r.m.setups
  /\ scenes' = r.scenes
  /\ current' = r.current
  /\ builds' = Append(builds, r.build)
  /\ UNCHANGED <<api, revision, walks, found>>

\* Scene.create(description)
Create(description) ==
  /\ Created(IF revision = "part_000"
             THEN create(Machine, scenes, current, description,
                         Len(builds) + 1)
             ELSE ts_create(Machine, scenes, current, description,
                            Len(builds) + 1))

\* create is given a description with components
CreateBuild ==
  \E n \in 0..(MaxObjects - UsedObjects(builds) - 1) :
    \E c \in 0..(MaxSetups - UsedSetups(builds)) :
      \E description \in BuildDescriptions[n][c] : Create(description)

\* the promise that a setup returned is resolved
FulfilSetup ==
  \E i \in 1..Len(setups) :
    /\ setups[i].promise # Undefined
    /\ promises[setups[i].promise].state = "pending"
    /\ promises' = Settle(promises, setups[i].promise, "fulfilled", Undefined)
    /\ UNCHANGED <<api, revision, ents, comps, scenes, current, builds, setups,
                   walks, found>>

\* the promise that a setup returned is rejected
RejectSetup ==
  \E i \in 1..Len(setups) :
    /\ setups[i].promise # Undefined
    /\ promises[setups[i].promise].state = "pending"
    /\ promises' = Settle(promises, setups[i].promise, "rejected", Undefined)
    /\ UNCHANGED <<api, revision, ents, comps, scenes, current, builds, setups,
                   walks, found>>

\* Promise.all(setupPromises) is fulfilled when every element is
allFulfilled(ps, setupPromises) ==
  \A i \in 1..Len(setupPromises) : Fulfilled(ps, setupPromises[i])

\* a callback that never resolves the promise of create
createThen_never(ps, bd, cur) == ps

\* the callback given to then in create: resolve(Scene.current)
createThen(ps, bd, cur) == Settle(ps, bd.promise, "fulfilled", cur)

\* The callback of Promise.all(setupPromises).then of a call of create
\* runs. Nothing is registered for the case where the array's promise is
\* rejected.
JoinBuild ==
  \E b \in 1..Len(builds) :
    /\ builds[b].all
    /\ ~builds[b].joined
    /\ allFulfilled(promises, builds[b].setupPromises)
    /\ promises' = createThen(promises, builds[b], current)
    /\ builds' = [builds EXCEPT ![b].joined = TRUE]
    /\ UNCHANGED <<api, revision, ents, comps, scenes, current, setups, walks,
                   found>>

Next == CreateBuild \/ FulfilSetup \/ RejectSetup \/ JoinBuild

Spec == Init /\ [][Next]_vars

\* The callback of a fulfilled Promise.all is a job of the microtask queue,
\* which the engine runs when the call stack is empty: a callback that can
\* run does run.
SpecLive == Spec /\ WF_vars(JoinBuild)

\* findObject of the loaded revision
FindIn(m, roots, objectName) ==
  IF revision = "part_000" THEN findObject(m, roots, objectName)
  ELSE ts_findObject(m, roots, objectName)

\* ------------------------------------------------- lookups and traversals
\* create is given a description without components
CreateTree ==
  \E n \in 0..(MaxObjects - UsedObjects(builds) - 1) :
    \E description \in TreeDescriptions[n] : Create(description)

\* Scene.current.findObject(objectName), as the components call it
FindObject ==
  \E objectName \in Names :
    /\ current # Undefined
    /\ found' = <<[scene |-> current, parent |-> "", name |-> objectName,
                   result |-> FindIn(Machine, scenes[current], objectName),
                   direct |-> FindIn(Machine, scenes[current], objectName)]>>
    /\ UNCHANGED <<api, revision, ents, comps, scenes, current, promises, builds,
                   setups, walks>>

\* r.getChild(objectName), r being what findObject gave: a call on
\* undefined throws, as does the expression when findObject threw
getChildOf(m, r, objectName) ==
  IF r.throws THEN Throws
  ELSE IF r.value = Undefined THEN Throws
  ELSE Returns(getChild(m, r.value, objectName))

\* Scene.current.findObject(parent).getChild(objectName), next to
\* Scene.current.findObject(objectName)
FindChild ==
  \E parentName \in Names, objectName \in Names :
    /\ current # Undefined
    /\ found' = <<[scene |-> current, parent |-> parentName,
                   name |-> objectName,
                   result |-> getChildOf(Machine,
                                FindIn(Machine, scenes[current], parentName),
                                objectName),
                   direct |-> FindIn(Machine, scenes[current], objectName)]>>
    /\ UNCHANGED <<api, revision, ents, comps, scenes, current, promises, builds,
                   setups, walks>>

NextFind == CreateTree \/ JoinBuild \/ FindObject \/ FindChild

SpecFind == Init /\ [][NextFind]_vars

\* the state after a call of walk on scene s that gave w
Walked(s, w) ==
  /\ promises' = w.promises
  /\ walks' = Append(walks, [scene |-> s, promise |-> Len(promises) + 1,
                             visits |-> w.visits, roots |-> w.roots,
                             joined |-> FALSE])
  /\ UNCHANGED <<api, revision, ents, comps, scenes, current, builds, setups,
                 found>>

\* scenes[s].walk(fn)
Walk ==
  \E s \in 1..Len(scenes) :
    /\ Len(walks) < MaxWalks
    /\ Walked(s, IF revision = "part_000"
                 THEN walk(ents, promises, scenes[s])
                 ELSE ts_walk(ents, promises, scenes[s]))

\* the promise that a call of fn returned is resolved
FulfilVisit ==
  \E k \in 1..Len(walks) : \E i \in 1..Len(walks[k].visits) :
    /\ promises[walks[k].visits[i].promise].state = "pending"
    /\ promises' = Settle(promises, walks[k].visits[i].promise, "fulfilled",
                          Undefined)
    /\ UNCHANGED <<api, revision, ents, comps, scenes, current, builds, setups,
                   walks, found>>

\* the promise that a call of fn returned is rejected
RejectVisit ==
  \E k \in 1..Len(walks) : \E i \in 1..Len(walks[k].visits) :
    /\ promises[walks[k].visits[i].promise].state = "pending"
    /\ promises' = Settle(promises, walks[k].visits[i].promise, "rejected",
                          Undefined)
    /\ UNCHANGED <<api, revision, ents, comps, scenes, current, builds, setups,
                   walks, found>>

\* every promise of the array `promises` of walk is resolved: some promise
\* that resolves it is fulfilled
allResolved(ps, roots) ==
  \A r \in 1..Len(roots) : \E p \in roots[r] : ps[p].state = "fulfilled"

\* The callback of Promise.all(promises).then of a call of walk runs:
\* resolve().
JoinWalk ==
  \E k \in 1..Len(walks) :
    /\ ~walks[k].joined
    /\ allResolved(promises, walks[k].roots)
    /\ promises' = Settle(promises, walks[k].promise, "fulfilled", Undefined)
    /\ walks' = [walks EXCEPT ![k].joined = TRUE]
    /\ UNCHANGED <<api, revision, ents, comps, scenes, current, builds, setups,
                   found>>

\* create is given a description without components, every entity named
\* after its rank
CreatePlain ==
  \E n \in 0..(MaxObjects - UsedObjects(builds) - 1) :
    \E description \in BuildDescriptions[n][0] : Create(description)

NextWalk == CreatePlain \/ Walk \/ FulfilVisit \/ RejectVisit \/ JoinWalk

SpecWalk == Init /\ [][NextWalk]_vars

\* ------------------------------------------- entities outside a scene
\* The state in which the calls on entities outside a scene start: no
\* object yet, Entity.componentCreator being the default or the mock.
InitEntity ==
  /\ revision = "scene.ts"
  /\ ents = <<>>
  /\ comps = <<>>
  /\ scenes = <<>>
  /\ current = Undefined
  /\ promises = <<>>
  /\ builds = <<>>
  /\ setups = <<>>
  /\ walks = <<>>
  /\ found = <<>>
  /\ creator \in Creators
  /\ calls = <<>>
  /\ added = <<>>

\* new Entity()
NewEnt ==
  /\ Len(ents) < MaxEntities
  /\ ents' = NewEntity(Machine).ents
  /\ added' = Append(added, <<>>)
  /\ UNCHANGED <<revision, comps, scenes, current, promises, builds, setups,
                 walks, found, creator, calls>>

\* the state after e.addComponent(type) gave r
AddedComponent(e, type, r) ==
  /\ ents' = r.m.ents
  /\ comps' = r.m.comps
  /\ calls' = Append(calls, [entity |-> e, type |-> type,
                             throws |-> r.throws, value |-> r.value,
                             before |-> ents[e].components,
                             after |-> r.m.ents[e].components])
  /\ found' = <<>>
  /\ UNCHANGED <<revision, scenes, current, promises, builds, setups, walks,
                 creator, added>>

\* e.addComponent(type)
AddComponent ==
  \E e \in 1..Len(ents) : \E type \in TypeNames :
    /\ Len(calls) < MaxCalls
    /\ AddedComponent(e, type,
                      addComponentWith(creatorCall(creator, Machine, type, e),
                                       e))

\* a getComponent that takes the component it returns away from the entity
GetComponent_taking ==
  \E e \in 1..Len(ents) : \E type \in TypeNames :
    /\ found' = <<[op |-> "getComponent", entity |-> e, name |-> type,
                   result |-> Returns(getComponent(Machine, e, type))]>>
    /\ ents' = [ents EXCEPT ![e].components =
                  SelectSeq(@, LAMBDA c : c # getComponent(Machine, e, type))]
    /\ UNCHANGED <<api, revision, comps, scenes, current, promises,
                   builds, setups, walks>>

\* e.getComponent(type)
GetComponent ==
  \E e \in 1..Len(ents) : \E type \in TypeNames :
    /\ found' = <<[op |-> "getComponent", entity |-> e, name |-> type,
                   result |-> Returns(getComponent(Machine, e, type))]>>
    /\ UNCHANGED <<api, revision, ents, comps, scenes, current, promises,
                   builds, setups, walks>>

\* e.walkComponent(fn)
WalkComponent ==
  \E e \in 1..Len(ents) :
    /\ found' = <<[op |-> "walkComponent", entity |-> e, name |-> "",
                   result |-> walkComponent(Machine, e)]>>
    /\ UNCHANGED <<api, revision, ents, comps, scenes, current, promises,
                   builds, setups, walks>>

NextComponents == NewEnt \/ AddComponent \/ GetComponent \/ WalkComponent

SpecComponents == InitEntity /\ [][NextComponents]_vars

\* the record of the calls of addChild on one entity after one more call:
\* a new name goes last, a name given before keeps its rank and takes the
\* child of this call
Recorded(rec, objectName, child) ==
  IF \E i \in 1..Len(rec) : rec[i][1] = objectName
  THEN [i \in 1..Len(rec) |->
          IF rec[i][1] = objectName THEN <<objectName, child>> ELSE rec[i]]
  ELSE Append(rec, <<objectName, child>>)

\* e.addChild(objectName, child)
AddChild ==
  \E e \in 1..Len(ents), child \in 1..Len(ents) : \E objectName \in ChildNames :
    /\ ents' = addChild(Machine, e, objectName, child).ents
    /\ added' = [added EXCEPT ![e] = Recorded(@, objectName, child)]
    /\ found' = <<>>
    /\ UNCHANGED <<revision, comps, scenes, current, promises, builds, setups,
                   walks, creator, calls>>

\* e.getChild(objectName)
GetChild ==
  \E e \in 1..Len(ents) : \E objectName \in ChildNames :
    /\ found' = <<[op |-> "getChild", entity |-> e, name |-> objectName,
                   result |-> Returns(getChild(Machine, e, objectName))]>>
    /\ UNCHANGED <<api, revision, ents, comps, scenes, current, promises,
                   builds, setups, walks>>

\* the calls fn(entity, name) made, as pairs <<name, entity>>
VisitPairs(visits) ==
  [k \in 1..Len(visits) |-> <<visits[k].name, visits[k].entity>>]

\* e.walkChildren(fn): what fn returns is dropped
WalkChildren ==
  \E e \in 1..Len(ents) :
    /\ found' = <<[op |-> "walkChildren", entity |-> e, name |-> "",
                   result |-> VisitPairs(
                     walkChildren([promises |-> promises, visits |-> <<>>,
                                   roots |-> <<>>],
                                  ents[e].children).visits)]>>
    /\ UNCHANGED <<api, revision, ents, comps, scenes, current, promises,
                   builds, setups, walks>>

NextChildren == NewEnt \/ AddChild \/ GetChild \/ WalkChildren

SpecChildren == InitEntity /\ [][NextChildren]_vars

\* ------------------------------------------------- the order of a search
\* create is given, once, a description without components of up to
\* MaxNodes entities
CreateDeep ==
  /\ builds = <<>>
  /\ \E n \in 0..MaxNodes :
       \E description \in TreeForests(n, {}) : Create(description)

NextOrder == CreateDeep \/ FindObject \/ Walk

SpecOrder == Init /\ [][NextOrder]_vars

\* ------------------------------------------------- lookups on a built scene
\* what the call recorded in f gives on the entities m and the scenes sc
LookupIn(f, m, sc) ==
  IF "op" \notin DOMAIN f
  THEN IF f.parent = "" THEN FindIn(m, sc[f.scene], f.name)
       ELSE getChildOf(m, FindIn(m, sc[f.scene], f.parent), f.name)
  ELSE IF f.op = "getChild" THEN Returns(getChild(m, f.entity, f.name))
  ELSE IF f.op = "getComponent"
       THEN Returns(getComponent(m, f.entity, f.name))
  ELSE f.result

\* create is given, once, a description with or without components
CreateFirst == builds = <<>> /\ (CreateBuild \/ CreateTree)

NextLookup == CreateFirst \/ FindObject \/ GetChild \/ GetComponent

SpecLookup == Init /\ [][NextLookup]_vars

\* ------------------------------------------------- LayerComponent
\* child.walkComponent(comp => ...) in listSpritesRecur: the enabled
\* sprites of the child are pushed, in the order of its components
RECURSIVE listSpritesPush(_, _, _)
listSpritesPush(m, sprites, components) ==
  IF components = <<>> THEN sprites
  ELSE listSpritesPush(
         m,
         IF m.comps[Head(components)].type = "Sprite"
            /\ m.comps[Head(components)].enabled
         THEN Append(sprites, Head(components))
         ELSE sprites,
         Tail(components))

RECURSIVE listSpritesRecur(_, _, _)

\* the callback of entity.walkChildren in listSpritesRecur, over the
\* children in their order: an inactive child is passed over with all that
\* it holds
RECURSIVE listSpritesChildren(_, _, _)
listSpritesChildren(m, sprites, children) ==
  IF children = <<>> THEN sprites
  ELSE listSpritesChildren(
         m,
         IF ~m.ents[Head(children)[2]].active THEN sprites
         ELSE listSpritesRecur(
                m,
                listSpritesPush(m, sprites,
                                m.ents[Head(children)[2]].components),
                Head(children)[2]),
         Tail(children))

\* listSpritesRecur(sprites, entity)
listSpritesRecur(m, sprites, entity) ==
  listSpritesChildren(m, sprites, m.ents[entity].children)

\* the callback of this.owner.walkChildren in listSprites, over the
\* children of the owner: every call is listSpritesRecur(sprites, this.owner)
RECURSIVE listSpritesEach(_, _, _, _)
listSpritesEach(m, sprites, owner, children) ==
  IF children = <<>> THEN sprites
  ELSE listSpritesEach(m, listSpritesRecur(m, sprites, owner), owner,
                       Tail(children))

\* LayerComponent.listSprites(), the layer being a component of owner
listSprites(m, owner) ==
  listSpritesEach(m, <<>>, owner, m.ents[owner].children)

\* an entity that holds a LayerComponent, and nothing else
InitLayer ==
  /\ revision = "layerComponent.ts"
  /\ ents = <<[components |-> <<1>>, children |-> <<>>, active |-> TRUE]>>
  /\ comps = <<[type |-> "Layer", owner |-> 1, enabled |-> TRUE]>>
  /\ scenes = <<>>
  /\ current = Undefined
  /\ promises = <<>>
  /\ builds = <<>>
  /\ setups = <<>>
  /\ walks = <<>>
  /\ found = <<>>
  /\ creator = "mock"
  /\ calls = <<>>
  /\ added = <<>>

\* a new entity, active or not, is made a child of the owner or of one of
\* its descendants
AttachChild ==
  \E parent \in 1..Len(ents) : \E active \in BOOLEAN :
    /\ Len(ents) < MaxBelow + 1
    /\ ents' = addChild(
                 [Machine EXCEPT !.ents =
                    Append(@, [components |-> <<>>, children |-> <<>>,
                               active |-> active])],
                 parent, NameSeq[Len(ents)], Len(ents) + 1).ents
    /\ found' = <<>>
    /\ UNCHANGED <<api, revision, comps, scenes, current, promises, builds,
                   setups, walks>>

\* a component, a sprite or not, enabled or not, is attached to an entity
AttachComponent ==
  \E e \in 1..Len(ents) : \E type \in {"Sprite", "Texture"} :
    \E enabled \in (IF type = "Sprite" THEN BOOLEAN ELSE {TRUE}) :
      /\ Len(comps) < MaxSprites + 1
      /\ comps' = Append(comps, [type |-> type, owner |-> e,
                                 enabled |-> enabled])
      /\ ents' = [ents EXCEPT ![e].components = Append(@, Len(comps) + 1)]
      /\ found' = <<>>
      /\ UNCHANGED <<api, revision, scenes, current, promises, builds,
                     setups, walks>>

\* the layer lists its sprites, as display does
ListSprites ==
  /\ found' = <<[op |-> "listSprites", entity |-> 1, name |-> "",
                 result |-> listSprites(Machine, 1)]>>
  /\ UNCHANGED <<api, revision, ents, comps, scenes, current, promises,
                 builds, setups, walks>>

NextLayer == AttachChild \/ AttachComponent \/ ListSprites

SpecLayer == InitLayer /\ [][NextLayer]_vars

\* ------------------------------------------------- RefereeComponent
\* p.getChild('score').getComponent('Score')
scoreComp(m, player) == getComponent(m, getChild(m, player, "score"), "Score")

\* this.players.forEach(p => ... .points = 0)
RECURSIVE refereeReset(_, _)
refereeReset(m, players) ==
  IF players = <<>> THEN m
  ELSE refereeReset([m EXCEPT !.comps[scoreComp(m, Head(players))].points = 0],
                    Tail(players))

\* after scoreComp.points++: at more than 9 points the game ends, with an
\* alert and the scores of all the players put back to 0
refereeEnd(r, player, players) ==
  IF r.m.comps[scoreComp(r.m, player)].points > 9
  THEN [m |-> refereeReset(r.m, players), alerts |-> r.alerts + 1]
  ELSE r

\* the body of the loop over the players for a player who is not the one in
\* whose zone the ball is: the player scores
refereePoint(r, player, players) ==
  refereeEnd([r EXCEPT !.m.comps[scoreComp(r.m, player)].points = @ + 1],
             player, players)

\* this.ball.getComponent('Position').reset() and
\* this.ball.getComponent('Motion').reset(), at the end of the body
refereeBall(r, ball) ==
  [r EXCEPT !.m.comps[getComponent(r.m, ball, "Position")].initial = TRUE,
            !.m.comps[getComponent(r.m, ball, "Motion")].initial = TRUE]

\* this.players.forEach(player => ...), rest being the players to come
RECURSIVE refereeEach(_, _, _, _, _)
refereeEach(r, rest, players, ball, ballInZone) ==
  IF rest = <<>> THEN r
  ELSE refereeEach(
         refereeBall(IF Head(rest) # ballInZone
                     THEN refereePoint(r, Head(rest), players)
                     ELSE r,
                     ball),
         Tail(rest), players, ball, ballInZone)

\* update, ballCollider being the collider of the ball
refereeJudge(m, referee, ballCollider) ==
  IF ballCollider.collision # Undefined THEN [m |-> m, alerts |-> 0]
  ELSE IF ballCollider.inZone = Undefined THEN [m |-> m, alerts |-> 0]
  ELSE refereeEach([m |-> m, alerts |-> 0], referee.players, referee.players,
                   referee.ball, ballCollider.inZone)

\* RefereeComponent.update() of the component c: gives the heap and the
\* number of alerts shown
RefereeComponent_update(m, c) ==
  refereeJudge(m, m.comps[c],
               m.comps[getComponent(m, m.comps[c].ball, "Collider")])

\* the entities of a game of n players, set up: the ball (1) with its
\* position, motion and collider, a wall (2), the referee (3), the players
\* (3 + i) and, child 'score' of each, an entity (3 + n + i) with a score of
\* 0 points. The ball's obstacles are the players and the wall; null is
\* Undefined.
GameEntities(n) ==
  [e \in 1..(3 + 2 * n) |->
     [components |->
        IF e = 1 THEN <<1, 2, 3>>
        ELSE IF e = 3 THEN <<4>>
        ELSE IF e > 3 + n THEN <<4 + (e - 3 - n)>>
        ELSE <<>>,
      children |->
        IF e > 3 /\ e <= 3 + n THEN <<<<"score", e + n>>>> ELSE <<>>]]

GameComponents(n) ==
  [c \in 1..(4 + n) |->
     IF c = 1 THEN [type |-> "Position", owner |-> 1, initial |-> TRUE]
     ELSE IF c = 2 THEN [type |-> "Motion", owner |-> 1, initial |-> TRUE]
     ELSE IF c = 3
     THEN [type |-> "Collider", owner |-> 1, collision |-> Undefined,
           inZone |-> Undefined,
           obstacles |-> [i \in 1..(n + 1) |-> IF i <= n THEN 3 + i ELSE 2]]
     ELSE IF c = 4
     THEN [type |-> "Referee", owner |-> 3,
           players |-> [i \in 1..n |-> 3 + i], ball |-> 1]
     ELSE [type |-> "Score", owner |-> 3 + n + (c - 4), points |-> 0]]

InitReferee ==
  /\ revision = "scene.ts"
  /\ \E n \in 1..MaxPlayers :
       /\ ents = GameEntities(n)
       /\ comps = GameComponents(n)
  /\ scenes = <<>>
  /\ current = Undefined
  /\ promises = <<>>
  /\ builds = <<>>
  /\ setups = <<>>
  /\ walks = <<>>
  /\ found = <<>>
  /\ creator = "ComponentFactory.create"
  /\ calls = <<>>
  /\ added = <<>>

\* MotionComponent.update(dT) of the ball: the position moves, and the
\* velocity changes when the ball leaves the bounds
MotionUpdate ==
  \E bounce \in BOOLEAN :
    /\ comps' = [comps EXCEPT ![1].initial = FALSE,
                              ![2].initial = IF bounce THEN FALSE ELSE @]
    /\ found' = <<>>
    /\ UNCHANGED <<api, revision, ents, scenes, current, promises, builds,
                   setups, walks>>

\* the i-th obstacle, or null
obstacleAt(obstacles, i) == IF i = 0 THEN Undefined ELSE obstacles[i]

\* ColliderComponent.update() of the ball: collision is the last obstacle
\* whose area the ball's area meets, inZone the last obstacle whose zone it
\* meets, each null if there is none. A zone contains its area, so the
\* obstacle in collision is not after the one in zone.
ColliderUpdate ==
  \E i, j \in 0..Len(comps[3].obstacles) :
    /\ i <= j
    /\ comps' = [comps EXCEPT
                   ![3].collision = obstacleAt(comps[3].obstacles, i),
                   ![3].inZone = obstacleAt(comps[3].obstacles, j)]
    /\ found' = <<>>
    /\ UNCHANGED <<api, revision, ents, scenes, current, promises, builds,
                   setups, walks>>

\* what a call of update recorded in found gives
Updated(r) ==
  /\ ents' = r.m.ents
  /\ comps' = r.m.comps
  /\ found' = <<[op |-> "update", entity |-> 3, name |-> "",
                 result |-> r.alerts, before |-> comps]>>
  /\ UNCHANGED <<api, revision, scenes, current, promises, builds, setups,
                 walks>>

\* the referee's update, once per iteration of the game loop
RefereeUpdate == Updated(RefereeComponent_update(Machine, 4))

NextReferee == MotionUpdate \/ ColliderUpdate \/ RefereeUpdate

SpecReferee == InitReferee /\ [][NextReferee]_vars

\* ================================================================ claims
\* What the claims speak of.
BuildIds == 1..Len(builds)
CreatePromise(b) == promises[builds[b].promise]
Resolved(b) == CreatePromise(b).state = "fulfilled"
Rejected(b) == CreatePromise(b).state = "rejected"

ChildrenOf(es, e) == {es[e].children[i][2] : i \in 1..Len(es[e].children)}
RootsOf(s) == {scenes[s][i][2] : i \in 1..Len(scenes[s])}
\* the entities reachable from a set of entities, in the heap es
RECURSIVE Reachable(_, _)
Reachable(es, S) ==
  IF UNION {ChildrenOf(es, e) : e \in S} \subseteq S THEN S
  ELSE Reachable(es, S \cup UNION {ChildrenOf(es, e) : e \in S})
SceneEntities(s) == Reachable(ents, RootsOf(s))
\* the components of the entities of a scene
SceneComponents(s) ==
  UNION {{ents[e].components[i] : i \in 1..Len(ents[e].components)} :
           e \in SceneEntities(s)}
\* the pairs <<name, entity>> under which the entities of a scene are stored
ScenePositions(s) ==
  {scenes[s][i] : i \in 1..Len(scenes[s])} \cup
  UNION {{ents[e].children[i] : i \in 1..Len(ents[e].children)} :
           e \in SceneEntities(s)}

SetupsOf(comp) == {i \in 1..Len(setups) : setups[i].comp = comp}
\* setup was called on the component and has completed
SetupCompleted(comp) ==
  \E i \in SetupsOf(comp) :
    ~setups[i].threw /\ Fulfilled(promises, setups[i].promise)
\* a setup called by build b threw, or the promise it returned is rejected
SetupFailed(b) ==
  \E i \in 1..Len(setups) :
    /\ setups[i].build = b
    /\ \/ setups[i].threw
       \/ /\ setups[i].promise # Undefined
          /\ promises[setups[i].promise].state = "rejected"
\* no promise that a setup of build b returned is pending, and the callback
\* of its Promise.all has run or can never run: nothing is left to happen
Settled(b) ==
  /\ \A i \in 1..Len(setups) :
       (setups[i].build = b /\ setups[i].promise # Undefined)
         => promises[setups[i].promise].state # "pending"
  /\ (builds[b].all /\ allFulfilled(promises, builds[b].setupPromises))
       => builds[b].joined

\* C3 - part_000: the promise of create is resolved only when setup has been
\* called and has completed on every component of every entity of the scene,
\* at every depth.
C3_BuildJoin ==
  revision = "part_000" =>
    \A b \in BuildIds :
      Resolved(b) =>
        \A comp \in SceneComponents(builds[b].scene) : SetupCompleted(comp)

\* the heap as it was when the i-th setup was called
HeapAt(i) == [ents |-> setups[i].ents, comps |-> setups[i].comps]

\* C4 - both revisions: when a setup is called, every entity and component
\* that the constructor made from the description exists and is attached,
\* Scene.current is the scene being built, and Scene.current.findObject(n)
\* gives, for every name n under which that scene stores an entity, that
\* entity.
C4_TwoPhase ==
  \A i \in 1..Len(setups) :
    /\ setups[i].ents = builds[setups[i].build].ents
    /\ setups[i].comps = builds[setups[i].build].comps
    /\ setups[i].current = builds[setups[i].build].scene
    /\ \A pos \in ScenePositions(builds[setups[i].build].scene) :
         FindIn(HeapAt(i), scenes[setups[i].current], pos[1])
           = Returns(pos[2])

\* a setup was called on a component of a nested entity while an earlier
\* scene had been active
C4_Witness ==
  \E i \in 1..Len(setups) :
    /\ builds[setups[i].build].before # Undefined
    /\ comps[setups[i].comp].owner
         \notin RootsOf(builds[setups[i].build].scene)
    /\ setups[i].current = builds[setups[i].build].scene

\* C5 - both revisions: when a setup of a build has failed (it threw, or the
\* promise it returned is rejected) and nothing is left to happen for that
\* build, the promise of create is rejected.
C5_FailureRejects ==
  \A b \in BuildIds : (SetupFailed(b) /\ Settled(b)) => Rejected(b)

\* C6 - create was called while a scene was active and a setup of that build
\* failed: Scene.current is still the scene that was active.
C6_FailureKeepsActive ==
  \A b \in BuildIds :
    (b = Len(builds) /\ builds[b].before # Undefined /\ SetupFailed(b))
      => current = builds[b].before

\* C7 - a step changes Scene.current only if it is a call of create, and a
\* call of create leaves Scene.current at the scene it has just constructed.
C7_SingleWriter ==
  [][/\ Len(builds') = Len(builds) => current' = current
     /\ Len(builds') # Len(builds) =>
          /\ Len(scenes') = Len(scenes) + 1
          /\ builds'[Len(builds')].scene = Len(scenes')
          /\ current' = Len(scenes')]_vars

\* a second call of create has replaced the active scene, and setups of both
\* builds have been called and settled since
C7_Witness ==
  /\ Len(builds) = 2
  /\ builds[2].before = builds[1].scene
  /\ current = builds[2].scene
  /\ \E i \in 1..Len(setups) :
       setups[i].promise # Undefined /\
       promises[setups[i].promise].state # "pending"

\* the scene's object obj mirrors the description desc
RECURSIVE Mirrors(_, _)
Mirrors(obj, desc) ==
  /\ Len(obj) = Len(desc)
  /\ \A i \in 1..Len(desc) :
       /\ Get(obj, desc[i][1]) # Undefined
       /\ Len(ents[Get(obj, desc[i][1])].components)
            = Len(desc[i][2].components)
       /\ \A j \in 1..Len(desc[i][2].components) :
            Cardinality(
              {k \in 1..Len(ents[Get(obj, desc[i][1])].components) :
                 comps[ents[Get(obj, desc[i][1])].components[k]].type
                   = desc[i][2].components[j][1]}) = 1
       /\ Mirrors(ents[Get(obj, desc[i][1])].children, desc[i][2].children)

\* C10 - part_000: the scene that create constructs has the roots, the
\* children at every depth and, on every entity, one component per entry of
\* the component map, tagged with the entry's type, that the description has.
C10_Mirror ==
  revision = "part_000" =>
    \A b \in BuildIds :
      Mirrors(scenes[builds[b].scene], builds[b].description)

\* a scene of three levels with a component on the entity of the third
C10_Witness ==
  /\ revision = "part_000"
  /\ \E b \in BuildIds :
       /\ DescDepth(builds[b].description) = 3
       /\ \E e \in SceneEntities(builds[b].scene) :
            /\ ents[e].components # <<>>
            /\ e \notin RootsOf(builds[b].scene)
            /\ \A r \in RootsOf(builds[b].scene) : e \notin ChildrenOf(ents, r)

\* the names of the entities of a description, at every depth
RECURSIVE NamesIn(_)
NamesIn(desc) ==
  {desc[i][1] : i \in 1..Len(desc)} \cup
  UNION {NamesIn(desc[i][2].children) : i \in 1..Len(desc)}

\* how many entities of a description bear the name n
RECURSIVE CountIn(_, _)
CountIn(desc, n) ==
  IF desc = <<>> THEN 0
  ELSE (IF Head(desc)[1] = n THEN 1 ELSE 0)
       + CountIn(Head(desc)[2].children, n) + CountIn(Tail(desc), n)

\* some entity named p of the description has a child named n
RECURSIVE ChildIn(_, _, _)
ChildIn(desc, n, p) ==
  \E i \in 1..Len(desc) :
    \/ desc[i][1] = p /\ Has(desc[i][2].children, n)
    \/ ChildIn(desc[i][2].children, n, p)

\* the build that made scene s
BuildOf(s) == CHOOSE b \in BuildIds : builds[b].scene = s
DescOf(s) == builds[BuildOf(s)].description

\* what findObject gave is an entity that scene s stores under the name n
FoundAt(s, n, r) ==
  ~r.throws /\ r.value # Undefined /\ <<n, r.value>> \in ScenePositions(s)

\* C1 as stated - part_000, once create(D) has resolved: findObject(n) gives,
\* for every name n of D at any depth, an entity stored under n; and for n
\* unique in D and a child of p, findObject(p).getChild(n) is the entity that
\* findObject(n) gives.
C1_FindEvery ==
  revision = "part_000" =>
    \A i \in 1..Len(found) :
      Resolved(BuildOf(found[i].scene)) =>
        /\ found[i].name \in NamesIn(DescOf(found[i].scene))
             => FoundAt(found[i].scene, found[i].name, found[i].direct)
        /\ ( /\ found[i].parent # ""
             /\ CountIn(DescOf(found[i].scene), found[i].name) = 1
             /\ ChildIn(DescOf(found[i].scene), found[i].name,
                        found[i].parent) )
             => found[i].result = found[i].direct

\* C1 amended - part_000, once create(D) has resolved: findObject(n) gives,
\* for every name n of D at any depth, an entity stored under n; and for n a
\* child of p, with both n and p unique in D, findObject(p).getChild(n) is
\* the entity that findObject(n) gives.
C1_FindUnique ==
  revision = "part_000" =>
    \A i \in 1..Len(found) :
      Resolved(BuildOf(found[i].scene)) =>
        /\ found[i].name \in NamesIn(DescOf(found[i].scene))
             => FoundAt(found[i].scene, found[i].name, found[i].direct)
        /\ ( /\ found[i].parent # ""
             /\ CountIn(DescOf(found[i].scene), found[i].name) = 1
             /\ CountIn(DescOf(found[i].scene), found[i].parent) = 1
             /\ ChildIn(DescOf(found[i].scene), found[i].name,
                        found[i].parent) )
             => /\ found[i].result = found[i].direct
                /\ FoundAt(found[i].scene, found[i].name, found[i].result)

\* a grandchild has been looked up through its parent, itself a child, in a
\* scene whose build has resolved
C1_Witness ==
  /\ revision = "part_000"
  /\ \E i \in 1..Len(found) :
       /\ Resolved(BuildOf(found[i].scene))
       /\ found[i].parent # ""
       /\ CountIn(DescOf(found[i].scene), found[i].name) = 1
       /\ CountIn(DescOf(found[i].scene), found[i].parent) = 1
       /\ ChildIn(DescOf(found[i].scene), found[i].name, found[i].parent)
       /\ ~Has(scenes[found[i].scene], found[i].parent)
       /\ FoundAt(found[i].scene, found[i].name, found[i].result)

VisitsOf(k) ==
  {<<walks[k].visits[i].name, walks[k].visits[i].entity>> :
     i \in 1..Len(walks[k].visits)}

\* C8 - part_000: walk calls fn once for every entity of the scene, root or
\* descendant at any depth, with the entity and the name under which the
\* scene or the parent stores it, and makes no other call of fn.
C8_WalkEvery ==
  revision = "part_000" =>
    \A k \in 1..Len(walks) :
      /\ VisitsOf(k) = ScenePositions(walks[k].scene)
      /\ Len(walks[k].visits) = Cardinality(ScenePositions(walks[k].scene))

\* a scene of three levels has been walked
C8_Witness ==
  /\ revision = "part_000"
  /\ \E k \in 1..Len(walks) :
       /\ DescDepth(DescOf(walks[k].scene)) = 3
       /\ Len(walks[k].visits) >= 3

\* C9 - both revisions: the promise of walk is resolved only when the
\* promise of every call of fn that the walk made has completed.
C9_WalkJoin ==
  \A k \in 1..Len(walks) :
    promises[walks[k].promise].state = "fulfilled" =>
      \A i \in 1..Len(walks[k].visits) :
        promises[walks[k].visits[i].promise].state # "pending"

\* the pairs <<entity, descriptor>> of the entities that the object obj
\* and their descendants hold for the entries of desc
RECURSIVE Described(_, _)
Described(obj, desc) ==
  UNION {IF Has(obj, desc[i][1])
         THEN {<<Get(obj, desc[i][1]), desc[i][2]>>} \cup
              Described(ents[Get(obj, desc[i][1])].children,
                        desc[i][2].children)
         ELSE {} : i \in 1..Len(desc)}

\* the pairs <<component, payload>> that the description of build b asks to
\* be set up: for every entity and every entry of its component map, the
\* entity's component of the entry's type and the entry's payload
ExpectedSetups(b) ==
  UNION {UNION {{<<ents[x[1]].components[k], x[2].components[j][2]>> :
                   k \in {k \in 1..Len(ents[x[1]].components) :
                            comps[ents[x[1]].components[k]].type
                              = x[2].components[j][1]}} :
                j \in 1..Len(x[2].components)} :
         x \in Described(scenes[builds[b].scene], builds[b].description)}

\* the calls of setup that build b made with the pair x
SetupCallsOf(b, x) ==
  {i \in 1..Len(setups) :
     setups[i].build = b /\ <<setups[i].comp, setups[i].payload>> = x}

\* a call of setup that build b made threw
SetupThrew(b) ==
  \E i \in 1..Len(setups) : setups[i].build = b /\ setups[i].threw

AddedTo(e) == {i \in 1..Len(calls) : calls[i].entity = e /\ ~calls[i].throws}

\* the components that entity e holds of type t
HeldOf(e, t) ==
  {k \in 1..Len(ents[e].components) : comps[ents[e].components[k]].type = t}

\* C12 - when the calls of addComponent on an entity had pairwise distinct
\* type names, getComponent(t) returns, for every type t added, the
\* component that addComponent(t) returned.
C12_GetAdded ==
  \A f \in 1..Len(found) :
    ( /\ found[f].op = "getComponent"
      /\ \A i, j \in AddedTo(found[f].entity) :
           i # j => calls[i].type # calls[j].type )
      => \A i \in AddedTo(found[f].entity) :
           calls[i].type = found[f].name
             => found[f].result = Returns(calls[i].value)

\* getComponent has been asked for the type added first to an entity that
\* holds two components of distinct types
C12_Witness ==
  \E f \in 1..Len(found) :
    /\ found[f].op = "getComponent"
    /\ Cardinality(AddedTo(found[f].entity)) = 2
    /\ \E i, j \in AddedTo(found[f].entity) :
         /\ i < j
         /\ calls[i].type # calls[j].type
         /\ calls[i].type = found[f].name
         /\ found[f].result = Returns(calls[i].value)

\* C13 - addComponent(t) on an entity that holds a component of type t
\* throws and leaves the components as they were: an entity holds at most
\* one component of each type.
C13_DuplicateThrows ==
  /\ \A i \in 1..Len(calls) :
       (\E k \in 1..Len(calls[i].before) :
          comps[calls[i].before[k]].type = calls[i].type)
         => calls[i].throws /\ calls[i].after = calls[i].before
  /\ \A e \in 1..Len(ents) : \A t \in TypeNames :
       Cardinality(HeldOf(e, t)) <= 1

\* C14 - getComponent(t) on an entity that holds no component of type t
\* throws.
C14_AbsentThrows ==
  \A f \in 1..Len(found) :
    (found[f].op = "getComponent" /\ HeldOf(found[f].entity, found[f].name) = {})
      => found[f].result.throws

\* C17 - walkComponent calls fn once for every component that addComponent
\* attached to the entity and for nothing else, the second argument being
\* the type tag of the first.
C17_WalkComponents ==
  \A f \in 1..Len(found) :
    found[f].op = "walkComponent" =>
      /\ Len(found[f].result) = Cardinality(AddedTo(found[f].entity))
      /\ {found[f].result[k][1] : k \in 1..Len(found[f].result)}
           = {calls[i].value : i \in AddedTo(found[f].entity)}
      /\ \A k \in 1..Len(found[f].result) :
           found[f].result[k][2] = comps[found[f].result[k][1]].type

\* walkComponent has run on an entity to which addComponent attached two
\* components
C17_Witness ==
  \E f \in 1..Len(found) :
    /\ found[f].op = "walkComponent"
    /\ Cardinality(AddedTo(found[f].entity)) = 2
    /\ Len(found[f].result) = 2

\* C19 - addComponent(t), for the test creator and for a registered type of
\* the default one, returns a component tagged t and owned by the entity,
\* which is appended to the entity's components.
C19_CreatedTagged ==
  \A i \in 1..Len(calls) :
    (creator = "mock" \/ calls[i].type \in Registered) =>
      /\ ~calls[i].throws
      /\ comps[calls[i].value].type = calls[i].type
      /\ comps[calls[i].value].owner = calls[i].entity
      /\ calls[i].after = Append(calls[i].before, calls[i].value)

\* the test creator has made a component for the second entity, which held
\* one already
C19_Witness ==
  /\ creator = "mock"
  /\ \E i \in 1..Len(calls) :
       /\ calls[i].entity = 2
       /\ calls[i].before # <<>>
       /\ calls[i].after = Append(calls[i].before, calls[i].value)

LastAdded(e, n) ==
  IF \E i \in 1..Len(added[e]) : added[e][i][1] = n
  THEN added[e][CHOOSE i \in 1..Len(added[e]) : added[e][i][1] = n][2]
  ELSE Undefined

C16_WalkChildren ==
  \A f \in 1..Len(found) :
    found[f].op = "walkChildren" =>
      /\ Len(found[f].result) = Len(added[found[f].entity])
      /\ {found[f].result[k] : k \in 1..Len(found[f].result)}
           = {added[found[f].entity][k] :
                k \in 1..Len(added[found[f].entity])}
      /\ \A k \in 1..Len(found[f].result) :
           getChild(Machine, found[f].entity, found[f].result[k][1])
             = found[f].result[k][2]

\* walkChildren has run on an entity that holds two children, one of which
\* has a child of its own
C16_Witness ==
  \E f \in 1..Len(found) :
    /\ found[f].op = "walkChildren"
    /\ Len(found[f].result) = 2
    /\ \E c \in ChildrenOf(ents, found[f].entity) :
         c # found[f].entity /\ ents[c].children # <<>>

\* the components that the calls of addComponent of cs on e returned, in the
\* order of the calls
RECURSIVE ReturnedTo(_, _)
ReturnedTo(cs, e) ==
  IF cs = <<>> THEN <<>>
  ELSE (IF Head(cs).entity = e /\ ~Head(cs).throws
        THEN <<Head(cs).value>> ELSE <<>>) \o ReturnedTo(Tail(cs), e)

\* C18 - walkChildren calls fn on the children in the order in which their
\* names were first given to addChild, whatever the names, and walkComponent
\* calls fn on the components in the order in which addComponent made them.
C18_InsertionOrder ==
  \A f \in 1..Len(found) :
    /\ found[f].op = "walkChildren"
         => found[f].result = added[found[f].entity]
    /\ found[f].op = "walkComponent"
         => [k \in 1..Len(found[f].result) |-> found[f].result[k][1]]
              = ReturnedTo(calls, found[f].entity)

\* the positions <<name, entity>> of the forest that the object obj holds,
\* in depth-first pre-order: the entries of obj in their order, each
\* followed by the positions of its subtree
RECURSIVE PreOrder(_, _)
PreOrder(es, obj) ==
  IF obj = <<>> THEN <<>>
  ELSE <<Head(obj)>> \o PreOrder(es, es[Head(obj)[2]].children)
         \o PreOrder(es, Tail(obj))

\* the positions below the roots of scene s, in depth-first pre-order
RECURSIVE ChildPositions(_, _)
ChildPositions(es, roots) ==
  IF roots = <<>> THEN <<>>
  ELSE PreOrder(es, es[Head(roots)[2]].children)
         \o ChildPositions(es, Tail(roots))

\* the ranks of the positions of seq that bear the name n
Keyed(seq, n) == {i \in 1..Len(seq) : seq[i][1] = n}

\* the entity of the first position of seq that bears the name n
FirstKeyed(seq, n) ==
  seq[CHOOSE i \in Keyed(seq, n) : \A j \in Keyed(seq, n) : i <= j][2]

\* C21 - part_000: for a name n that no root bears and that several
\* entities bear as child key, findObject(n) returns the one that the
\* depth-first pre-order traversal of the forest reaches first.
C21_FirstPreOrder ==
  revision = "part_000" =>
    \A f \in 1..Len(found) :
      ( /\ ~Has(scenes[found[f].scene], found[f].name)
        /\ Cardinality(Keyed(ChildPositions(ents, scenes[found[f].scene]),
                             found[f].name)) >= 2 )
        => found[f].direct
             = Returns(FirstKeyed(ChildPositions(ents, scenes[found[f].scene]),
                                  found[f].name))

\* the last call was a lookup: getComponent, getChild or findObject
IsLookup(f) ==
  IF "op" \in DOMAIN f THEN f.op \in {"getComponent", "getChild"} ELSE TRUE

\* C22 - getComponent, getChild and findObject are read-only: a call leaves
\* the roots of every scene and the components and children of every entity
\* as they were; and they are idempotent: the same call, made again on the
\* tree as the call left it, gives the same result.
C22_ReadOnly ==
  [][ (found' # found /\ found' # <<>> /\ IsLookup(found'[1]))
        => /\ ents' = ents
           /\ comps' = comps
           /\ scenes' = scenes
           /\ current' = current
           /\ LookupIn(found'[1], [Machine EXCEPT !.ents = ents',
                                                  !.comps = comps'], scenes')
                = found'[1].result ]_vars

\* getComponent gave a component of an entity of the active scene, in which
\* findObject finds an entity
C22_Witness ==
  /\ found # <<>>
  /\ "op" \in DOMAIN found[1]
  /\ found[1].op = "getComponent"
  /\ found[1].name = "Sync"
  /\ current # Undefined
  /\ found[1].result.value \in SceneComponents(current)
  /\ comps[found[1].result.value].type = "Sync"
  /\ ~FindIn(Machine, scenes[current], "B").throws

\* the types of the components that a description asks for, at every depth
RECURSIVE TypesOf(_)
TypesOf(desc) ==
  IF desc = <<>> THEN {}
  ELSE {Head(desc)[2].components[j][1] :
          j \in 1..Len(Head(desc)[2].components)}
       \cup TypesOf(Head(desc)[2].children) \cup TypesOf(Tail(desc))

\* every setup that build b asks for is synchronous and does not fail
SyncOnly(b) == TypesOf(builds[b].description) \subseteq {"Sync"}

\* C23 - for every description whose setups are all synchronous and do not
\* fail (the empty description included, at any depth), the promise of
\* create is eventually resolved, no event being needed other than the
\* steps of the build itself.
C23_SyncResolves ==
  \A b \in 1..MaxObjects :
    (b \in BuildIds /\ SyncOnly(b)) ~> (b \in BuildIds /\ Resolved(b))

\* the promises of an empty build and of a build with synchronous setups
\* below the roots are resolved
C23_Witness ==
  \E b \in BuildIds, e \in BuildIds :
    /\ builds[e].description = <<>>
    /\ Resolved(e)
    /\ SyncOnly(b)
    /\ DescDepth(builds[b].description) >= 2
    /\ SetupCount(builds[b].description) >= 2
    /\ Resolved(b)

\* the positions that a walk of scene s goes through: all of them in
\* part_000, the roots and their children in scene.ts
WalkPositions(s) ==
  IF revision = "part_000" THEN ScenePositions(s)
  ELSE {scenes[s][i] : i \in 1..Len(scenes[s])} \cup
       UNION {{ents[scenes[s][i][2]].children[j] :
                 j \in 1..Len(ents[scenes[s][i][2]].children)} :
              i \in 1..Len(scenes[s])}

\* C24 - both revisions: walk(fn), and walkChildren(fn) which the walk of
\* scene.ts calls, apply fn to every entity they go through in the call
\* itself, while every promise that fn returned is still pending; no
\* application is left for the time a promise of fn completes.
C24_FanOut ==
  [][ \A k \in 1..Len(walks') :
        IF k > Len(walks)
        THEN /\ VisitsOf(k)' = WalkPositions(walks'[k].scene)
             /\ \A i \in 1..Len(walks'[k].visits) :
                  promises'[walks'[k].visits[i].promise].state = "pending"
        ELSE walks'[k].visits = walks[k].visits ]_vars

\* a walk applied fn three times; the promise the first application returned
\* is pending and the one the last application returned has completed
C24_Witness ==
  \E k \in 1..Len(walks) :
    /\ Len(walks[k].visits) >= 3
    /\ promises[walks[k].visits[1].promise].state = "pending"
    /\ promises[walks[k].visits[Len(walks[k].visits)].promise].state
         = "fulfilled"

\* the places that hold the entity e: <<0, s, i>> for the i-th root of
\* scene s, <<1, p, i>> for the i-th child of entity p
EntityHolders(e) ==
  UNION {{<<0, s, i>> : i \in {i \in 1..Len(scenes[s]) : scenes[s][i][2] = e}} :
           s \in 1..Len(scenes)}
  \cup
  UNION {{<<1, p, i>> :
            i \in {i \in 1..Len(ents[p].children) : ents[p].children[i][2] = e}} :
           p \in 1..Len(ents)}

\* the places <<e, i>> that hold the component c
ComponentHolders(c) ==
  UNION {{<<e, i>> :
            i \in {i \in 1..Len(ents[e].components) :
                     ents[e].components[i] = c}} :
           e \in 1..Len(ents)}

\* C25 - both revisions: in every scene that create built, every entity is
\* held at exactly one place, as a root or as a child of one entity under one
\* name, and no entity is its own ancestor; every component is held once, by
\* the entity that owns it.
C25_Ownership ==
  \A s \in 1..Len(scenes) : \A e \in SceneEntities(s) :
    /\ Cardinality(EntityHolders(e)) = 1
    /\ e \notin Reachable(ents, ChildrenOf(ents, e))
    /\ \A i \in 1..Len(ents[e].components) :
         /\ comps[ents[e].components[i]].owner = e
         /\ ComponentHolders(ents[e].components[i]) = {<<e, i>>}

\* a built scene holds a root, a child and a grandchild, and two components
C25_Witness ==
  \E s \in 1..Len(scenes) :
    /\ Cardinality(SceneEntities(s)) >= 3
    /\ Cardinality(SceneEntities(s) \ RootsOf(s)) >= 2
    /\ Cardinality(RootsOf(s)) = 1
    /\ Cardinality(ChildrenOf(ents, CHOOSE r \in RootsOf(s) : TRUE)) = 1
    /\ Cardinality(SceneComponents(s)) >= 2

\* every call of setup made so far received the payload that the
\* description of its build gives for the component's type on the
\* component's entity
PayloadsIntact ==
  \A i \in 1..Len(setups) :
    <<setups[i].comp, setups[i].payload>> \in ExpectedSetups(setups[i].build)

\* C26 - both revisions: create does not modify the description it is given:
\* the description of a build, names, component maps, payloads and children,
\* stays what it was through every step of the build, successful or not; and
\* every setup receives the payload of its component as the description
\* gives it.
C26_DescriptionKept ==
  [][ /\ \A b \in BuildIds : builds'[b].description = builds[b].description
      /\ PayloadsIntact' ]_vars

\* a build of two levels has called setup on a root's and on a child's
\* component, and its promise is settled or can no longer be
C26_Witness ==
  \E b \in BuildIds :
    /\ DescDepth(builds[b].description) >= 2
    /\ Cardinality({setups[i].comp :
                      i \in {i \in 1..Len(setups) : setups[i].build = b}}) >= 2
    /\ \E i \in 1..Len(setups) :
         /\ setups[i].build = b
         /\ comps[setups[i].comp].owner \notin RootsOf(builds[b].scene)
         /\ setups[i].payload
              = Payload(NameSeq[comps[setups[i].comp].owner],
                        comps[setups[i].comp].type)
    /\ Settled(b)

\* create has been called for build b2 while the promise that a setup of
\* the earlier build b1 returned is pending
Overlap(b1, b2) ==
  /\ b1 < b2
  /\ b2 \in BuildIds
  /\ \E i \in 1..Len(setups) :
       /\ setups[i].build = b1
       /\ setups[i].promise # Undefined
       /\ promises[setups[i].promise].state = "pending"

\* C27 - both revisions: when create is called for a second description
\* while a setup of a first build is pending, the promise of the first
\* build, once resolved, holds the scene constructed from the first
\* description.
C27_OwnScene ==
  \A b1, b2 \in 1..MaxObjects :
    [](Overlap(b1, b2) =>
         []((b1 \in BuildIds /\ Resolved(b1))
              => CreatePromise(b1).value = builds[b1].scene))

\* the calls of addComponent(t) on entity e that returned a component
AddedOf(e, t) == {i \in AddedTo(e) : calls[i].type = t}

RootsWith(s, n) ==
  {i \in 1..Len(scenes[s]) : Has(ents[scenes[s][i][2]].children, n)}

\* C29 - scene.ts: for a name n that no root bears and that several roots
\* have a child of, findObject(n) returns the child of the first such root,
\* in the order in which the roots were inserted.
C29_FirstRoot ==
  revision = "scene.ts" =>
    \A f \in 1..Len(found) :
      ( /\ ~Has(scenes[found[f].scene], found[f].name)
        /\ Cardinality(RootsWith(found[f].scene, found[f].name)) >= 2 )
        => \E i \in RootsWith(found[f].scene, found[f].name) :
             /\ \A j \in RootsWith(found[f].scene, found[f].name) : i <= j
             /\ found[f].direct
                  = Returns(Get(ents[scenes[found[f].scene][i][2]].children,
                                found[f].name))

\* the names of the entries of a description or of an object, in order
NameList(desc) == [i \in 1..Len(desc) |-> desc[i][1]]

\* the names with which walk k applied fn to the roots of its scene, in the
\* order of the applications
RootVisits(k) ==
  LET vs == SelectSeq(walks[k].visits,
                      LAMBDA v : v.entity \in RootsOf(walks[k].scene))
  IN [i \in 1..Len(vs) |-> vs[i].name]

\* C30 - part_000: walk(fn) applies fn to the roots in the order in which
\* the description inserted them, and to every entity before any of its
\* descendants, whatever the shape of the forest.
C30_PreOrder ==
  revision = "part_000" =>
    \A k \in 1..Len(walks) :
      /\ RootVisits(k) = NameList(DescOf(walks[k].scene))
      /\ \A i, j \in 1..Len(walks[k].visits) :
           walks[k].visits[j].entity
             \in Reachable(ents, ChildrenOf(ents, walks[k].visits[i].entity))
             => i < j

\* a forest of two roots, the first with a child and a grandchild, has been
\* walked
C30_Witness ==
  /\ revision = "part_000"
  /\ \E k \in 1..Len(walks) :
       /\ Len(walks[k].visits) = 4
       /\ Len(scenes[walks[k].scene]) = 2
       /\ DescDepth(DescOf(walks[k].scene)) = 3
       /\ walks[k].visits[4].entity \in RootsOf(walks[k].scene)
       /\ walks[k].visits[3].entity
            \in ChildrenOf(ents, walks[k].visits[2].entity)

\* the active descendants of entity e: its active children and the active
\* descendants of these
RECURSIVE ActiveBelow(_)
ActiveBelow(e) ==
  UNION {{ents[e].children[i][2]} \cup ActiveBelow(ents[e].children[i][2]) :
           i \in {i \in 1..Len(ents[e].children) :
                    ents[ents[e].children[i][2]].active}}

\* the enabled sprites attached to the active descendants of entity e
SpritesBelow(e) ==
  {c \in 1..Len(comps) :
     /\ comps[c].type = "Sprite"
     /\ comps[c].enabled
     /\ comps[c].owner \in ActiveBelow(e)}

\* C31 - listSprites returns a list that holds every enabled sprite attached
\* to an active descendant of the layer's owner exactly once, and nothing
\* else, however many children the owner has.
C31_ListedOnce ==
  \A f \in 1..Len(found) :
    found[f].op = "listSprites" =>
      /\ \A c \in SpritesBelow(found[f].entity) :
           Cardinality({i \in 1..Len(found[f].result) :
                          found[f].result[i] = c}) = 1
      /\ \A i \in 1..Len(found[f].result) :
           found[f].result[i] \in SpritesBelow(found[f].entity)

\* the score components of the players of the referee
PlayerScores ==
  {scoreComp(Machine, comps[4].players[i]) : i \in 1..Len(comps[4].players)}

\* the scores are all within 0..9
ScoresInRange == \A c \in PlayerScores : comps[c].points \in 0..9

\* the last step was an update in which the ball had a collision or was in
\* nobody's zone
IdleUpdate ==
  /\ found # <<>>
  /\ found[1].op = "update"
  /\ (comps[3].collision # Undefined \/ comps[3].inZone = Undefined)

\* C32 - RefereeComponent.update ends the game at the 10th point: after an
\* update in which a player's score went above 9 (the alert was shown) the
\* score of every player is 0, so the scores, which start within 0..9, are
\* within 0..9 after every update; and an update in which the ball has a
\* collision or is in nobody's zone changes no score.
C32_GameEnds ==
  /\ \A f \in 1..Len(found) :
       (found[f].op = "update" /\ found[f].result > 0)
         => \A c \in PlayerScores : comps[c].points = 0
  /\ ScoresInRange
  /\ IdleUpdate => \A c \in PlayerScores :
                     comps[c].points = found[1].before[c].points

====
